---- MODULE Spec2Model ----
(***************************************************************************)
(* A model of src/src/main.rs: the Axum demo service with the endpoints    *)
(* /, /health, /sum, /echo, /parallel and /metrics.                        *)
(*                                                                         *)
(* Text is a sequence of one-character strings.  The i64 of the program is *)
(* modelled at Width bits (TLC's integers are 32 bits wide, so 2^63 cannot *)
(* be written); every rule below is generic in the width.                  *)
(***************************************************************************)
EXTENDS Integers, Sequences, FiniteSets, TLC

\* ---------------------------------------------------------------- bounds
\* Bits of the modelled i64.
Width == 4
\* Longest input text of the exhaustive ParseSum runs.
MaxLen == 4
\* Number of request slots (concurrent requests) of the service runs.
MaxReq == 2
\* Largest requested count n of /parallel in the service runs.
MaxReqN == 1
\* Number of request slots of the counter runs.
MaxClients == 3
\* Largest requested count n of /parallel in the clamp runs.
MaxClampN == 33
\* Largest requested count n of the single Compute call runs.
MaxComputeN == 3
\* The largest requested count of two Compute calls running at once.
MaxConcurrentN == 2

\* ------------------------------------------------------ program constants
\* q.n.unwrap_or(5)
DEFAULT_N == 5
\* .min(32)
MAX_N == 32
\* let ms = 50 + (i as u64) * 30
BASE_MS == 50
STEP_MS == 30

RECURSIVE Pow2(_)
Pow2(k) == IF k = 0 THEN 1 ELSE 2 * Pow2(k - 1)

I64_MIN == -Pow2(Width - 1)
I64_MAX == Pow2(Width - 1) - 1

Min(a, b) == IF a < b THEN a ELSE b

\* ------------------------------------------------------------------ text
Digits == {"0", "1", "2", "3", "4", "5", "6", "7", "8", "9"}
DigitVal(c) ==
    CASE c = "0" -> 0 [] c = "1" -> 1 [] c = "2" -> 2 [] c = "3" -> 3
      [] c = "4" -> 4 [] c = "5" -> 5 [] c = "6" -> 6 [] c = "7" -> 7
      [] c = "8" -> 8 [] c = "9" -> 9

\* char::is_whitespace, over the characters of the model.
IsWhitespace(c) == c = " "

\* s.split(','): the fields between the commas, empty ones included.
RECURSIVE Split(_)
Split(s) ==
    IF \A i \in 1..Len(s) : s[i] /= ","
    THEN <<s>>
    ELSE LET k == CHOOSE i \in 1..Len(s) :
                      s[i] = "," /\ \A j \in 1..(i - 1) : s[j] /= ","
         IN  <<SubSeq(s, 1, k - 1)>> \o Split(SubSeq(s, k + 1, Len(s)))

\* .filter(|t| !t.is_empty())
NonEmptyDrop(toks) == toks
NonEmptyTrimmed(toks) ==
    SelectSeq(toks, LAMBDA t : \E k \in 1..Len(t) : t[k] /= " ")
NonEmpty(toks) == SelectSeq(toks, LAMBDA t : t /= <<>>)

\* str::trim: the text without its leading and trailing whitespace.
RECURSIVE TrimStart(_)
TrimStart(t) ==
    IF t /= <<>> /\ IsWhitespace(Head(t)) THEN TrimStart(Tail(t)) ELSE t
RECURSIVE TrimEnd(_)
TrimEnd(t) ==
    IF t /= <<>> /\ IsWhitespace(t[Len(t)])
    THEN TrimEnd(SubSeq(t, 1, Len(t) - 1))
    ELSE t
Trim(t) == TrimEnd(TrimStart(t))

\* The digits of d read as a decimal number, most significant first, or -1
\* once the magnitude is past every i64 (checked_mul / checked_add fail).
RECURSIVE Magnitude(_, _)
Magnitude(d, acc) ==
    IF d = <<>> THEN acc
    ELSE LET nxt == acc * 10 + DigitVal(Head(d))
         IN  IF nxt > -I64_MIN THEN -1 ELSE Magnitude(Tail(d), nxt)

\* str::parse::<i64>: an optional sign, then one or more decimal digits, the
\* value within [I64_MIN, I64_MAX]; anything else is Err.
ParseErr == [ok |-> FALSE, v |-> 0]
ParseI64(t) ==
    LET signed == t /= <<>> /\ Head(t) \in {"+", "-"}
        neg    == t /= <<>> /\ Head(t) = "-"
        d      == IF signed THEN Tail(t) ELSE t
        m      == Magnitude(d, 0)
        v      == IF neg THEN -m ELSE m
    IN  IF d = <<>> \/ \E i \in 1..Len(d) : d[i] \notin Digits
        THEN ParseErr
        ELSE IF m = -1 \/ v < I64_MIN \/ v > I64_MAX
             THEN ParseErr
             ELSE [ok |-> TRUE, v |-> v]

\* i64 wrapping addition (the release build's `+=`).
Wrap(x) == ((x - I64_MIN) % Pow2(Width)) + I64_MIN

\* AppError values and the results of parse_sum_input.
BadRequest(m) == [kind |-> "BadRequest", msg |-> m]
Internal(m) == [kind |-> "Internal", msg |-> m]
Ok(v) == [tag |-> "Ok", total |-> v]
Err(e) == [tag |-> "Err", err |-> e]
Panic == [tag |-> "Panic"]
\* format!("nums 第 {idx} 项不是有效整数: {t}")
SumMessage(idx, t) == <<"nums", idx, "not a valid integer", t>>

\* `total += v`: with overflow checks (debug build) an overflow panics,
\* without them (release build) it wraps.
AddI64(total, v, checks) ==
    IF total + v >= I64_MIN /\ total + v <= I64_MAX
    THEN Ok(total + v)
    ELSE IF checks THEN Panic ELSE Ok(Wrap(total + v))

\* One iteration of the for loop of parse_sum_input: token number idx
\* (zero-based, among the non-empty ones) with the running total.
LoopBodyUntrimmed(total, idx, token, checks) ==
    LET p == ParseI64(Trim(token))
    IN  IF p.ok THEN AddI64(total, p.v, checks)
        ELSE Err(BadRequest(SumMessage(idx, token)))
LoopBody(total, idx, token, checks) ==
    LET t == Trim(token)
        p == ParseI64(t)
    IN  IF p.ok THEN AddI64(total, p.v, checks)
        ELSE Err(BadRequest(SumMessage(idx, t)))

RECURSIVE SumLoop(_, _, _, _)
SumLoop(toks, idx, total, checks) ==
    IF idx >= Len(toks) THEN Ok(total)
    ELSE LET r == LoopBody(total, idx, toks[idx + 1], checks)
         IN  IF r.tag = "Ok" THEN SumLoop(toks, idx + 1, r.total, checks)
             ELSE r

parse_sum_input(s, checks) == SumLoop(NonEmpty(Split(s)), 0, 0, checks)

\* The decimal text of a non-negative number (used to write inputs only).
RECURSIVE Decimal(_)
Decimal(k) ==
    LET c == CHOOSE d \in Digits : DigitVal(d) = k % 10
    IN  IF k < 10 THEN <<c>> ELSE Decimal(k \div 10) \o <<c>>

\* -------------------------------------------------------------- the state
Endpoints == <<"root", "health", "sum", "echo", "parallel">>
Counted == {Endpoints[k] : k \in 1..Len(Endpoints)}
Max(a, b) == IF a > b THEN a ELSE b
Req == 1..Max(MaxReq, MaxClients)

Absent == "absent"
Missing == "missing"
Malformed == "malformed"
\* What the extractors hand to a handler: a text (nums, message), a number
\* (n), or nothing.
TextArg(t) == [kind |-> "text", text |-> t, num |-> 0]
NumArg(k) == [kind |-> "num", text |-> <<>>, num |-> k]
NoArg(k) == [kind |-> k, text |-> <<>>, num |-> 0]
NoResponse == [status |-> 0, kind |-> "none", body |-> <<>>]

VARIABLES
    overflow_checks, \* the build: TRUE debug (overflow panics), FALSE release
    hits,            \* AppState.hits_*: endpoint -> count
    pc,              \* each request's position in its handler
    endpoint,        \* each request's route
    arg,             \* each request's extracted input
    response,        \* each request's response
    cnt,             \* parallel: n after unwrap_or and min
    spawned,         \* parallel: how many tasks the for loop has spawned
    running,         \* parallel: the tasks still sleeping
    notified,        \* parallel: the JoinSet's finished tasks, oldest first
    results,         \* parallel: the Vec of joined results
    finished,        \* history: the order in which the tasks finished
    snap,            \* metrics: the counters read so far
    incs,            \* history: fetch_adds done on behalf of each request
    snap_start,      \* history: the counters when the running metrics
                     \* handler began
    p_in, p_pc, p_toks, p_idx, p_total, p_res, \* one call of parse_sum_input
    e_in, e_out      \* one call of AppError::into_response

vars == <<overflow_checks, hits, pc, endpoint, arg, response, cnt, spawned,
          running, notified, results, finished, snap, incs, snap_start,
          p_in, p_pc, p_toks, p_idx, p_total, p_res, e_in, e_out>>
svars == <<hits, pc, endpoint, arg, response, cnt, spawned, running,
           notified, results, finished, snap, incs, snap_start>>
evars == <<e_in, e_out>>
pvars == <<p_in, p_pc, p_toks, p_idx, p_total, p_res, evars>>
cvars == <<cnt, spawned, running, notified, results, finished>>

\* main: AppState with every counter at 0; no request yet.
InitService ==
    /\ hits = [e \in Counted |-> 0]
    /\ pc = [r \in Req |-> "idle"]
    /\ endpoint = [r \in Req |-> "none"]
    /\ arg = [r \in Req |-> NoArg("none")]
    /\ response = [r \in Req |-> NoResponse]
    /\ cnt = [r \in Req |-> 0]
    /\ spawned = [r \in Req |-> 0]
    /\ running = [r \in Req |-> {}]
    /\ notified = [r \in Req |-> <<>>]
    /\ results = [r \in Req |-> <<>>]
    /\ finished = [r \in Req |-> <<>>]
    /\ snap = [r \in Req |-> <<>>]
    /\ snap_start = [r \in Req |-> [e \in Counted |-> 0]]
    /\ incs = [r \in Req |-> 0]

NoError == [kind |-> "none", msg |-> <<>>]
InitRenderIdle ==
    /\ e_in = NoError
    /\ e_out = NoResponse

InitParseIdle ==
    /\ p_in = <<>>
    /\ p_pc = "off"
    /\ p_toks = <<>>
    /\ p_idx = 0
    /\ p_total = 0
    /\ p_res = [tag |-> "None"]

\* ------------------------------------------------- parse_sum_input, alone
Alphabet == {",", " ", "-", "+", "x", "1", "5"}
Texts == UNION {[1..k -> Alphabet] : k \in 0..MaxLen}
\* The inputs of tests::parse_sum_ok and tests::parse_sum_invalid.
TestInputs ==
    { <<"1", ",", "2", ",", "3">>,
      <<" ", "1", " ", ",", " ", "2", " ", ",", " ", "3", " ">>,
      <<"1", ",", ",", "3">>,
      <<"1", ",", "x", ",", "3">> }
\* Inputs whose sum leaves the i64 range upwards and downwards.
OverflowInput == Decimal(I64_MAX) \o <<",", "1">>
UnderflowInput == <<"-">> \o Decimal(-I64_MIN) \o <<",", "-", "1">>
\* An input whose running total leaves the range and whose sum is within it.
PassingOverflowInput == OverflowInput \o <<",", "-", "1">>
\* An input whose running total leaves the range before a token that is no
\* integer, and one with a token made of whitespace only.
OverflowThenBadInput == OverflowInput \o <<",", "x">>
BlankTokenInput == <<"1", ",", " ", ",", "3">>
OverflowThenBlankInput == OverflowInput \o <<",", " ">>
ParseInputs ==
    Texts \cup TestInputs
          \cup {OverflowInput, UnderflowInput, PassingOverflowInput,
                OverflowThenBadInput, BlankTokenInput,
                OverflowThenBlankInput}

InitParse ==
    /\ overflow_checks \in BOOLEAN
    /\ InitService
    /\ InitRenderIdle
    /\ p_in \in ParseInputs
    /\ p_pc = "start"
    /\ p_toks = <<>>
    /\ p_idx = 0
    /\ p_total = 0
    /\ p_res = [tag |-> "None"]

\* let mut total = 0; the iterator s.split(',').filter(..).enumerate()
ParseStart ==
    /\ p_pc = "start"
    /\ p_toks' = NonEmpty(Split(p_in))
    /\ p_idx' = 0
    /\ p_total' = 0
    /\ p_pc' = "loop"
    /\ UNCHANGED <<overflow_checks, svars, evars, p_in, p_res>>

\* One iteration of the for loop: the next token, trimmed and parsed.
ParseIter ==
    /\ p_pc = "loop"
    /\ p_idx < Len(p_toks)
    /\ LET r == LoopBody(p_total, p_idx, p_toks[p_idx + 1], overflow_checks)
       IN  IF r.tag = "Ok"
           THEN /\ p_total' = r.total
                /\ p_idx' = p_idx + 1
                /\ UNCHANGED <<p_pc, p_res>>
           ELSE /\ p_res' = r
                /\ p_pc' = "done"
                /\ UNCHANGED <<p_total, p_idx>>
    /\ UNCHANGED <<overflow_checks, svars, evars, p_in, p_toks>>

\* Ok(total), once the iterator is exhausted.
ParseReturn ==
    /\ p_pc = "loop"
    /\ p_idx = Len(p_toks)
    /\ p_res' = Ok(p_total)
    /\ p_pc' = "done"
    /\ UNCHANGED <<overflow_checks, svars, evars, p_in, p_toks, p_idx, p_total>>

NextParse == ParseStart \/ ParseIter \/ ParseReturn
SpecParse == InitParse /\ [][NextParse]_vars

\* The loop, run step by step, ends as the function applied at once does.
ParseStepsAgree ==
    p_pc = "done" => p_res = parse_sum_input(p_in, overflow_checks)

\* ------------------------------------------------------------ the service
Routes == Counted \cup {"metrics"}

\* The inputs a request may carry, per route.
SumArgs ==
    { NoArg(Missing), TextArg(<<"1", ",", ",", "3">>),
      TextArg(<<"1", ",", "x">>), TextArg(OverflowInput) }
EchoArgs ==
    { NoArg(Malformed), TextArg(<<>>), TextArg(<<" ">>),
      TextArg(<<" ", "h", "i">>) }
ParallelArgs == {NoArg(Malformed)} \cup {NumArg(k) : k \in 0..MaxReqN}
ClampArgs == {NoArg(Absent)} \cup {NumArg(k) : k \in 0..MaxClampN}
Args(ep) ==
    CASE ep = "sum" -> SumArgs
      [] ep = "echo" -> EchoArgs
      [] ep = "parallel" -> ParallelArgs
      [] OTHER -> {NoArg("none")}

\* The extractors of the handler's signature: Query<SumQuery> needs nums,
\* Json<EchoBody> a well-formed body with a message, Query<ParallelQuery>
\* an n that is absent or a usize.  State<Arc<AppState>> never fails.
Extractable(ep, a) ==
    CASE ep = "sum" -> a.kind = "text"
      [] ep = "echo" -> a.kind = "text"
      [] ep = "parallel" -> a.kind \in {"num", Absent}
      [] OTHER -> TRUE

Rejection == [status |-> 400, kind |-> "rejection", body |-> <<>>]
\* impl IntoResponse for AppError
RenderAll400(e) == [status |-> 400, kind |-> "error", body |-> e.msg]
Render(e) ==
    [status |-> IF e.kind = "BadRequest" THEN 400 ELSE 500,
     kind |-> "error", body |-> e.msg]
Success(kind, body) == [status |-> 200, kind |-> kind, body |-> body]

\* AtomicU64::fetch_add(1, Relaxed) on the counter of endpoint e.
FetchStore(h, e) == [h EXCEPT ![e] = 1]
FetchXor(h, e) == [h EXCEPT ![e] = 1 - @]
FetchAddAll(h, e) == [f \in DOMAIN h |-> h[f] + 1]
FetchAdd(h, e) == [h EXCEPT ![e] = @ + 1]

\* q.n.unwrap_or(5).min(32)
ClampNoMin(a) == IF a.kind = Absent THEN DEFAULT_N ELSE a.num
Clamp(a) == Min(IF a.kind = Absent THEN DEFAULT_N ELSE a.num, MAX_N)

\* What task i yields after its sleep.
ParallelResultDouble(i) ==
    [index |-> i, value |-> i + i, ms |-> BASE_MS + i * STEP_MS]
ParallelResult(i) ==
    [index |-> i, value |-> i * i, ms |-> BASE_MS + i * STEP_MS]

\* Requests take the slots in the order of their arrival.
NextSlot(r) == pc[r] = "idle" /\ \A q \in 1..(r - 1) : pc[q] /= "idle"

\* A request is routed and its extractors succeed: the handler is entered.
Arrive(r, ep, a) ==
    /\ NextSlot(r)
    /\ Extractable(ep, a)
    /\ pc' = [pc EXCEPT ![r] = "handler"]
    /\ endpoint' = [endpoint EXCEPT ![r] = ep]
    /\ arg' = [arg EXCEPT ![r] = a]
    /\ snap_start' = [snap_start EXCEPT ![r] = IF ep = "metrics" THEN hits ELSE @]
    /\ UNCHANGED <<overflow_checks, hits, response, cvars, snap, incs, pvars>>

\* A request is routed and an extractor rejects it: the handler never runs.
Reject(r, ep, a) ==
    /\ NextSlot(r)
    /\ ~Extractable(ep, a)
    /\ pc' = [pc EXCEPT ![r] = "responded"]
    /\ endpoint' = [endpoint EXCEPT ![r] = ep]
    /\ arg' = [arg EXCEPT ![r] = a]
    /\ response' = [response EXCEPT ![r] = Rejection]
    /\ UNCHANGED <<overflow_checks, hits, cvars, snap, incs, snap_start, pvars>>

\* The first statement of root, health, sum, echo and parallel.
CountLocked(r) ==
    /\ pc[r] = "handler"
    /\ endpoint[r] \in Counted
    /\ \A q \in Req : ~(endpoint[q] = "metrics" /\ pc[q] = "handler" /\ snap[q] /= <<>>)
    /\ hits' = FetchAdd(hits, endpoint[r])
    /\ incs' = [incs EXCEPT ![r] = @ + 1]
    /\ pc' = [pc EXCEPT ![r] = "body"]
    /\ UNCHANGED <<overflow_checks, endpoint, arg, response, cvars, snap, snap_start, pvars>>
Count(r) ==
    /\ pc[r] = "handler"
    /\ endpoint[r] \in Counted
    /\ hits' = FetchAdd(hits, endpoint[r])
    /\ incs' = [incs EXCEPT ![r] = @ + 1]
    /\ pc' = [pc EXCEPT ![r] = "body"]
    /\ UNCHANGED <<overflow_checks, endpoint, arg, response, cvars, snap, snap_start, pvars>>

Respond(r, resp) ==
    /\ response' = [response EXCEPT ![r] = resp]
    /\ pc' = [pc EXCEPT ![r] = "responded"]

\* (StatusCode::OK, "ok")
Root(r) ==
    /\ pc[r] = "body" /\ endpoint[r] = "root"
    /\ Respond(r, Success("text", <<"ok">>))
    /\ UNCHANGED <<overflow_checks, hits, endpoint, arg, cvars, snap, incs, snap_start, pvars>>

\* Json(Health { status: "healthy" })
Health(r) ==
    /\ pc[r] = "body" /\ endpoint[r] = "health"
    /\ Respond(r, Success("json", <<"status", "healthy">>))
    /\ UNCHANGED <<overflow_checks, hits, endpoint, arg, cvars, snap, incs, snap_start, pvars>>

\* let total = parse_sum_input(&q.nums)?; Ok(Json({"total": total}))
\* A panic unwinds the handler: the request gets no response.
Sum(r) ==
    /\ pc[r] = "body" /\ endpoint[r] = "sum"
    /\ LET res == parse_sum_input(arg[r].text, overflow_checks)
       IN  CASE res.tag = "Ok" -> Respond(r, Success("json", <<"total", res.total>>))
             [] res.tag = "Err" -> Respond(r, Render(res.err))
             [] res.tag = "Panic" ->
                    /\ pc' = [pc EXCEPT ![r] = "panicked"]
                    /\ UNCHANGED response
    /\ UNCHANGED <<overflow_checks, hits, endpoint, arg, cvars, snap, incs, snap_start, pvars>>

\* if body.message.trim().is_empty() { BadRequest } else { Ok(Json(body)) }
EchoMessage == <<"message must not be empty">>
EchoReplyTrimmed(msg) ==
    IF Trim(msg) = <<>>
    THEN Render(BadRequest(EchoMessage))
    ELSE Success("json", <<"message", Trim(msg)>>)
EchoReply(msg) ==
    IF Trim(msg) = <<>>
    THEN Render(BadRequest(EchoMessage))
    ELSE Success("json", <<"message", msg>>)
Echo(r) ==
    /\ pc[r] = "body" /\ endpoint[r] = "echo"
    /\ Respond(r, EchoReply(arg[r].text))
    /\ UNCHANGED <<overflow_checks, hits, endpoint, arg, cvars, snap, incs, snap_start, pvars>>

\* let n = q.n.unwrap_or(5).min(32); let mut tasks = JoinSet::new();
Parallel(r) ==
    /\ pc[r] = "body" /\ endpoint[r] = "parallel"
    /\ cnt' = [cnt EXCEPT ![r] = Clamp(arg[r])]
    /\ pc' = [pc EXCEPT ![r] = "parallel"]
    /\ UNCHANGED <<overflow_checks, hits, endpoint, arg, response, spawned,
                   running, notified, results, finished, snap, incs, snap_start, pvars>>

\* for i in 0..n { tasks.spawn(..) }: one turn of the loop.  A spawned task
\* runs at once, beside the loop.
Spawn(r) ==
    /\ pc[r] = "parallel"
    /\ spawned[r] < cnt[r]
    /\ running' = [running EXCEPT ![r] = @ \cup {spawned[r]}]
    /\ spawned' = [spawned EXCEPT ![r] = @ + 1]
    /\ UNCHANGED <<overflow_checks, hits, pc, endpoint, arg, response, cnt,
                   notified, results, finished, snap, incs, snap_start, pvars>>

\* Task i's sleep is over and it yields its ParallelResult: the JoinSet
\* moves it to the end of its list of finished tasks.
TaskOutput(i) == [index |-> i, ok |-> TRUE, out |-> ParallelResult(i)]
\* A task the runtime reports as failed has no output.
NoOutput == [index |-> 0, value |-> 0, ms |-> 0]
JoinError(i) == [index |-> i, ok |-> FALSE, out |-> NoOutput]
TaskCompleteShared(r, i) ==
    /\ i \in running[r]
    /\ running' = [running EXCEPT ![r] = @ \ {i}]
    /\ notified' = [notified EXCEPT ![1] = Append(@, TaskOutput(i))]
    /\ finished' = [finished EXCEPT ![r] = Append(@, [index |-> i, ok |-> TRUE])]
    /\ UNCHANGED <<overflow_checks, hits, pc, endpoint, arg, response, cnt,
                   spawned, results, snap, incs, snap_start, pvars>>
TaskComplete(r, i) ==
    /\ i \in running[r]
    /\ running' = [running EXCEPT ![r] = @ \ {i}]
    /\ notified' = [notified EXCEPT ![r] = Append(@, TaskOutput(i))]
    /\ finished' = [finished EXCEPT ![r] = Append(@, [index |-> i, ok |-> TRUE])]
    /\ UNCHANGED <<overflow_checks, hits, pc, endpoint, arg, response, cnt,
                   spawned, results, snap, incs, snap_start, pvars>>

\* The runtime reports that task i could not complete (aborted, panicked):
\* join_next will yield Err(JoinError) for it.
TaskAbort(r, i) ==
    /\ i \in running[r]
    /\ running' = [running EXCEPT ![r] = @ \ {i}]
    /\ notified' = [notified EXCEPT ![r] = Append(@, JoinError(i))]
    /\ finished' = [finished EXCEPT ![r] = Append(@, [index |-> i, ok |-> FALSE])]
    /\ UNCHANGED <<overflow_checks, hits, pc, endpoint, arg, response, cnt,
                   spawned, results, snap, incs, snap_start, pvars>>

\* The for loop is over and the handler is in `while let Some(res) =
\* tasks.join_next().await`.
Joining(r) == pc[r] = "parallel" /\ spawned[r] = cnt[r]
\* The JoinSet holds no task any more: join_next yields None.
JoinSetEmptyUnjoined(r) == running[r] = {} /\ notified[r] = <<>> /\ results[r] = <<>>
JoinSetEmptyEarly(r) == results[r] /= <<>>
JoinSetEmpty(r) == running[r] = {} /\ notified[r] = <<>>
\* The finished task join_next yields: the one that finished first.
NextJoinedLast(q) == q[Len(q)]
NextJoined(q) == Head(q)
Remove(q, e) == SelectSeq(q, LAMBDA x : x /= e)

\* results.push(res.unwrap()): an Err panics, the unwinding drops results
\* and the JoinSet, and the drop aborts the tasks still running.
JoinNext(r) ==
    /\ Joining(r)
    /\ notified[r] /= <<>>
    /\ LET h == NextJoined(notified[r])
       IN  IF h.ok
           THEN /\ results' = [results EXCEPT ![r] = Append(@, h.out)]
                /\ notified' = [notified EXCEPT ![r] = Remove(@, h)]
                /\ UNCHANGED <<pc, running>>
           ELSE /\ pc' = [pc EXCEPT ![r] = "panicked"]
                /\ results' = [results EXCEPT ![r] = <<>>]
                /\ notified' = [notified EXCEPT ![r] = <<>>]
                /\ running' = [running EXCEPT ![r] = {}]
    /\ UNCHANGED <<overflow_checks, hits, endpoint, arg, response, cnt,
                   spawned, finished, snap, incs, snap_start, pvars>>

\* Json(results)
ParallelReturn(r) ==
    /\ Joining(r)
    /\ JoinSetEmpty(r)
    /\ Respond(r, Success("json", results[r]))
    /\ UNCHANGED <<overflow_checks, hits, endpoint, arg, cvars, snap, incs, snap_start, pvars>>

\* metrics: one load(Relaxed), in the order the json! macro names them.
LoadStale(h, e) == 0
Load(h, e) == h[e]
MetricsRead(r) ==
    /\ pc[r] = "handler" /\ endpoint[r] = "metrics"
    /\ Len(snap[r]) < Len(Endpoints)
    /\ snap' = [snap EXCEPT ![r] = Append(@, Load(hits, Endpoints[Len(@) + 1]))]
    /\ UNCHANGED <<overflow_checks, hits, pc, endpoint, arg, response, cvars,
                   incs, snap_start, pvars>>

\* Json({"uptime_seconds": .., "hits": {..}}); the uptime is a reading of
\* the clock and is left out of the body.
MetricsReturn(r) ==
    /\ pc[r] = "handler" /\ endpoint[r] = "metrics"
    /\ Len(snap[r]) = Len(Endpoints)
    /\ Respond(r, Success("json", snap[r]))
    /\ snap_start' = [snap_start EXCEPT ![r] = [e \in Counted |-> 0]]
    /\ UNCHANGED <<overflow_checks, hits, endpoint, arg, cvars, snap, incs, pvars>>

\* ------------------------------------------------------ the specifications
Init ==
    /\ overflow_checks \in BOOLEAN
    /\ InitService
    /\ InitParseIdle
    /\ InitRenderIdle

\* The service under requests to every route, all interleavings.
Next ==
    \E r \in 1..MaxReq :
        \/ \E ep \in Routes : \E a \in Args(ep) : Arrive(r, ep, a)
        \/ \E ep \in Routes : \E a \in Args(ep) : Reject(r, ep, a)
        \/ Count(r)
        \/ Root(r)
        \/ Health(r)
        \/ Sum(r)
        \/ Echo(r)
        \/ Parallel(r)
        \/ Spawn(r)
        \/ \E i \in 0..MaxReqN : TaskComplete(r, i)
        \/ JoinNext(r)
        \/ ParallelReturn(r)
        \/ MetricsRead(r)
        \/ MetricsReturn(r)
Spec == Init /\ [][Next]_vars

\* One Compute call (a /parallel request), its tasks finishing in every
\* order and the runtime free to report any of them as failed.
NextCompute ==
    \/ \E k \in 0..MaxComputeN : Arrive(1, "parallel", NumArg(k))
    \/ Count(1)
    \/ Parallel(1)
    \/ Spawn(1)
    \/ \E i \in 0..MaxComputeN : TaskComplete(1, i)
    \/ \E i \in 0..MaxComputeN : TaskAbort(1, i)
    \/ JoinNext(1)
    \/ ParallelReturn(1)
SpecCompute == Init /\ [][NextCompute]_vars

\* One Compute call on a runtime that schedules every runnable task and
\* whose timers fire: the handler and each spawned task keep taking their
\* steps, and no task is reported as failed.
NextComputeFair ==
    \/ \E k \in 0..MaxComputeN : Arrive(1, "parallel", NumArg(k))
    \/ Count(1)
    \/ Parallel(1)
    \/ Spawn(1)
    \/ \E i \in 0..MaxComputeN : TaskComplete(1, i)
    \/ JoinNext(1)
    \/ ParallelReturn(1)
SpecComputeFair ==
    /\ Init
    /\ [][NextComputeFair]_vars
    /\ WF_vars(Count(1))
    /\ WF_vars(Parallel(1))
    /\ WF_vars(Spawn(1))
    /\ \A i \in 0..MaxComputeN : WF_vars(TaskComplete(1, i))
    /\ WF_vars(JoinNext(1))
    /\ WF_vars(ParallelReturn(1))

\* Two Compute calls at once, each with its own JoinSet, the steps of the
\* two handlers and of their tasks interleaved in every way.
NextConcurrent ==
    \E r \in 1..2 :
        \/ NextSlot(r) /\ \E k \in 0..MaxConcurrentN : Arrive(r, "parallel", NumArg(k))
        \/ Count(r)
        \/ Parallel(r)
        \/ Spawn(r)
        \/ \E i \in 0..MaxConcurrentN : TaskComplete(r, i)
        \/ JoinNext(r)
        \/ ParallelReturn(r)
SpecConcurrent == Init /\ [][NextConcurrent]_vars

\* One Compute call with a requested count up to and past the cap, the
\* timers firing in the order of their deadlines (50 + 30 * i grows with i).
TimerFires(r) ==
    /\ running[r] /= {}
    /\ TaskComplete(r, CHOOSE i \in running[r] : \A j \in running[r] : i <= j)
NextClamp ==
    \/ \E a \in ClampArgs : Arrive(1, "parallel", a)
    \/ Count(1)
    \/ Parallel(1)
    \/ Spawn(1)
    \/ TimerFires(1)
    \/ JoinNext(1)
    \/ ParallelReturn(1)
SpecClamp == Init /\ [][NextClamp]_vars

\* The counters under more requests at once, one input per route: each
\* handler up to its fetch_add, and metrics in full.  What a handler does
\* after its fetch_add reads and writes no counter.
CounterArgs(ep) ==
    CASE ep = "sum" -> {TextArg(<<"1", ",", "x">>)}
      [] ep = "echo" -> {TextArg(<<" ", "h", "i">>)}
      [] ep = "parallel" -> {NumArg(0)}
      [] OTHER -> {NoArg("none")}
NextCounters ==
    \E r \in 1..MaxClients :
        \/ \E ep \in Routes : \E a \in CounterArgs(ep) : Arrive(r, ep, a)
        \/ Count(r)
        \/ MetricsRead(r)
        \/ MetricsReturn(r)
SpecCounters == Init /\ [][NextCounters]_vars

\* One request to /echo with any message up to MaxLen characters.
NextEcho ==
    \/ NextSlot(1) /\ \E t \in Texts : Arrive(1, "echo", TextArg(t))
    \/ Reject(1, "echo", NoArg(Malformed))
    \/ Count(1)
    \/ Echo(1)
SpecEcho == Init /\ [][NextEcho]_vars

\* AppError::into_response, alone: every error value, rendered once.
Messages == Texts \cup {EchoMessage, SumMessage(1, <<"x">>)}
Errors == {BadRequest(m) : m \in Messages} \cup {Internal(m) : m \in Messages}
InitRender ==
    /\ overflow_checks \in BOOLEAN
    /\ InitService
    /\ InitParseIdle
    /\ e_in \in Errors
    /\ e_out = NoResponse
RenderCall ==
    /\ e_in /= NoError
    /\ e_out = NoResponse
    /\ e_out' = Render(e_in)
    /\ UNCHANGED <<overflow_checks, svars, p_in, p_pc, p_toks, p_idx,
                   p_total, p_res, e_in>>
NextRender == RenderCall
SpecRender == InitRender /\ [][NextRender]_vars

\* ================================================================ claims
Ended(r) == pc[r] \in {"responded", "panicked"}
IsCompute(r) == endpoint[r] = "parallel" /\ arg[r].kind \in {"num", Absent}
Returned(r) == IsCompute(r) /\ pc[r] = "responded"
HadFailure(r) == \E k \in 1..Len(finished[r]) : ~finished[r][k].ok

\* C1: when the runtime reports a subtask of a Compute call as failed, the
\* call ends with an Internal error, status 500 with the error envelope,
\* and returns no partial list of results.
C1_FailedTaskGivesInternal ==
    \A r \in Req :
        (IsCompute(r) /\ Ended(r) /\ HadFailure(r))
            => /\ pc[r] = "responded"
               /\ response[r].status = 500
               /\ response[r].kind = "error"

\* The next turn of the loop adds a token that takes the total out of range.
OverflowNext ==
    /\ p_pc = "loop"
    /\ p_idx < Len(p_toks)
    /\ LET p == ParseI64(Trim(p_toks[p_idx + 1]))
       IN  p.ok /\ (p_total + p.v > I64_MAX \/ p_total + p.v < I64_MIN)
\* C2: whenever adding a parsed token to the running total would leave the
\* i64 range, parse_sum_input fails with an Internal error.
C2_OverflowGivesInternal ==
    [][OverflowNext =>
          /\ p_pc' = "done"
          /\ p_res'.tag = "Err"
          /\ p_res'.err.kind = "Internal"]_vars

\* C3: a Compute call that returns for a requested count n returns
\* min(n, 32) results, every index below that count in exactly one of them,
\* each with value = index * index and duration_ms = 50 + index * 30;
\* Compute(0) returns the empty sequence.
C3_ResultsOfCompute ==
    \A r \in Req :
        (Returned(r) /\ arg[r].kind = "num") =>
            LET body == response[r].body
                m == IF arg[r].num < 32 THEN arg[r].num ELSE 32
            IN  /\ response[r].status = 200
                /\ Len(body) = m
                /\ \A i \in 0..(m - 1) :
                       Cardinality({k \in 1..Len(body) : body[k].index = i}) = 1
                /\ \A k \in 1..Len(body) :
                       /\ body[k].value = body[k].index * body[k].index
                       /\ body[k].ms = 50 + body[k].index * 30
                /\ (arg[r].num = 0 => body = <<>>)
C3_Witness ==
    /\ Returned(1)
    /\ arg[1].num = 3
    /\ Len(response[1].body) = 3
    /\ response[1].body[1].index = 2

\* The results of the tasks 0 .. k-1, as a set.
ResultsFor(k) ==
    {[index |-> i, value |-> i * i, ms |-> 50 + i * 30] : i \in 0..(k - 1)}
Elements(q) == {q[k] : k \in 1..Len(q)}
\* C4: the requested count is clamped by the minimum with 32: a call never
\* has more than 32 subtasks spawned, every n above 32 gives the results of
\* n = 32, and a request without n behaves as n = 5.
C4_Clamped ==
    \A r \in Req :
        /\ spawned[r] <= 32
        /\ Cardinality(running[r]) + Len(notified[r]) + Len(results[r]) <= 32
        /\ (Returned(r) /\ arg[r].kind = "num" /\ arg[r].num > 32)
               => /\ Len(response[r].body) = 32
                  /\ Elements(response[r].body) = ResultsFor(32)
        /\ (Returned(r) /\ arg[r].kind = Absent)
               => /\ Len(response[r].body) = 5
                  /\ Elements(response[r].body) = ResultsFor(5)
C4_Witness ==
    /\ Returned(1)
    /\ arg[1].kind = "num"
    /\ arg[1].num = 33
    /\ Len(response[1].body) = 32

\* C5: join-all barrier: when a Compute call returns, none of the subtasks
\* it spawned is still running; each of them has completed or failed and
\* has been joined.
C5_JoinAllBarrier ==
    \A r \in Req :
        Returned(r) =>
            /\ running[r] = {}
            /\ notified[r] = <<>>
            /\ spawned[r] = cnt[r]
            /\ Len(finished[r]) = spawned[r]
            /\ \A i \in 0..(spawned[r] - 1) :
                   \E k \in 1..Len(finished[r]) : finished[r][k].index = i
C5_Witness ==
    /\ Returned(1)
    /\ spawned[1] = 3
    /\ Len(finished[1]) = 3

\* Where the result of task i stands in q.
Position(q, i) == CHOOSE k \in 1..Len(q) : q[k].index = i
\* C6: the returned sequence is in completion order: of two subtasks of a
\* call, the one that completed first has its result first, whatever their
\* indexes; and while the call collects, what it has collected is the
\* beginning of the completion order.
C6_CompletionOrder ==
    \A r \in Req :
        /\ (IsCompute(r) /\ pc[r] = "parallel")
               => \A k \in 1..Len(results[r]) :
                      results[r][k].index = finished[r][k].index
        /\ Returned(r) =>
               \A j, k \in 1..Len(finished[r]) :
                   j < k =>
                       Position(response[r].body, finished[r][j].index)
                           < Position(response[r].body, finished[r][k].index)
C6_Witness ==
    /\ Returned(1)
    /\ Len(finished[1]) = 3
    /\ finished[1][1].index = 2
    /\ finished[1][2].index = 0
    /\ response[1].body[1].index = 2
    /\ response[1].body[2].index = 0

\* The number of fetch_adds made so far on the counter of endpoint e.
RECURSIVE IncsOf(_, _)
IncsOf(S, e) ==
    IF S = {} THEN 0
    ELSE LET r == CHOOSE x \in S : TRUE
         IN  (IF endpoint[r] = e THEN incs[r] ELSE 0) + IncsOf(S \ {r}, e)
IncCount(e) == IncsOf(Req, e)
\* C7: no lost updates: a counter holds the number of increments made to
\* it, by however many requests at once, and a Snapshot's load of a counter
\* made after K increments of it reports K.
C7_NoLostUpdates ==
    [][/\ \A e \in Counted : hits[e] = IncCount(e)
       /\ \A r \in Req :
              Len(snap'[r]) = Len(snap[r]) + 1 =>
                  snap'[r][Len(snap'[r])] = IncCount(Endpoints[Len(snap'[r])])]_vars
C7_Witness ==
    /\ endpoint[1] = "health" /\ pc[1] = "body"
    /\ endpoint[2] = "health" /\ pc[2] = "body"
    /\ endpoint[3] = "metrics" /\ pc[3] = "responded"
    /\ response[3].body[2] = 2

\* C8: no step makes any of the five counters smaller.
C8_CountersNeverDecrease ==
    [][\A e \in Counted : hits'[e] >= hits[e]]_vars
C8_Witness ==
    /\ hits["root"] = 2
    /\ hits["parallel"] = 1

\* C9: every request to root, health, sum, echo or parallel increments that
\* endpoint's counter exactly once, before the endpoint's logic runs,
\* whatever the outcome of the request.
C9_EveryRequestCounted ==
    \A r \in Req :
        (endpoint[r] \in Counted /\ (Ended(r) \/ pc[r] \in {"body", "parallel"}))
            => incs[r] = 1

\* The fields of a text and their sum, read off the text itself: the
\* places of the commas, the text between two of them without its outer
\* blanks, its value digit by digit.
Bounds(s) == {0, Len(s) + 1} \cup {i \in 1..Len(s) : s[i] = ","}
FieldEnd(s, a) == CHOOSE b \in Bounds(s) :
                      b > a /\ \A c \in Bounds(s) : ~(a < c /\ c < b)
FieldStarts(s) == {a \in Bounds(s) : a <= Len(s) /\ FieldEnd(s, a) > a + 1}
Inner(s, a) ==
    LET b == FieldEnd(s, a)
        ink == {k \in (a + 1)..(b - 1) : s[k] /= " "}
    IN  IF ink = {} THEN <<>>
        ELSE SubSeq(s, CHOOSE k \in ink : \A j \in ink : k <= j,
                       CHOOSE k \in ink : \A j \in ink : k >= j)
RECURSIVE Pow10(_)
Pow10(k) == IF k = 0 THEN 1 ELSE 10 * Pow10(k - 1)
RECURSIVE PlaceSum(_, _)
PlaceSum(d, k) ==
    IF k > Len(d) THEN 0
    ELSE DigitVal(d[k]) * Pow10(Len(d) - k) + PlaceSum(d, k + 1)
IsInteger(t) ==
    LET d == IF t /= <<>> /\ t[1] \in {"+", "-"} THEN Tail(t) ELSE t
    IN  d /= <<>> /\ \A k \in 1..Len(d) : d[k] \in Digits
IntegerOf(t) ==
    IF t[1] = "-" THEN -PlaceSum(Tail(t), 1)
    ELSE IF t[1] = "+" THEN PlaceSum(Tail(t), 1) ELSE PlaceSum(t, 1)
InI64(v) == v >= I64_MIN /\ v <= I64_MAX
RECURSIVE FieldSum(_, _)
FieldSum(s, S) ==
    IF S = {} THEN 0
    ELSE LET a == CHOOSE x \in S : TRUE
         IN  IntegerOf(Inner(s, a)) + FieldSum(s, S \ {a})
SumUpTo(s, a) == FieldSum(s, {x \in FieldStarts(s) : x <= a})
Summable(s) ==
    /\ \A a \in FieldStarts(s) :
           IsInteger(Inner(s, a)) /\ InI64(IntegerOf(Inner(s, a)))
    /\ \A a \in FieldStarts(s) : InI64(SumUpTo(s, a))
\* C10: when every non-empty field between the commas is, once trimmed, an
\* i64 and the running sum stays within the i64, parse_sum_input returns
\* the sum of the fields; empty fields contribute nothing.
C10_SumOfFields ==
    p_pc = "done" =>
        /\ Summable(p_in) => p_res = Ok(FieldSum(p_in, FieldStarts(p_in)))
        /\ p_in = <<"1", ",", ",", "3">> => p_res = Ok(4)
        /\ p_in = <<" ", "1", " ", ",", " ", "2", " ", ",", " ", "3", " ">>
               => p_res = Ok(6)
        /\ (\A k \in 1..Len(p_in) : p_in[k] = ",") => p_res = Ok(0)
C10_Witness ==
    /\ p_pc = "done"
    /\ p_in = <<"1", ",", ",", "3">>
    /\ Summable(p_in)
    /\ p_res = Ok(4)

\* The first non-empty field that is no i64, the number of non-empty fields
\* before it, and whether the sum of those stays within the i64.
IsI64(t) == IsInteger(t) /\ InI64(IntegerOf(t))
BadFields(s) == {a \in FieldStarts(s) : ~IsI64(Inner(s, a))}
FirstBad(s) == CHOOSE a \in BadFields(s) : \A b \in BadFields(s) : a <= b
IndexOfField(s, a) == Cardinality({b \in FieldStarts(s) : b < a})
QuietBefore(s, a) ==
    \A b \in FieldStarts(s) : b < a => InI64(SumUpTo(s, b))
BadRequestAt(s, a) ==
    [tag |-> "Err",
     err |-> [kind |-> "BadRequest",
              msg |-> <<"nums", IndexOfField(s, a), "not a valid integer",
                        Inner(s, a)>>]]

BlankFields(s) == {a \in FieldStarts(s) : Inner(s, a) = <<>>}
C12_EchoValidation ==
    \A r \in Req :
        (endpoint[r] = "echo" /\ pc[r] = "responded" /\ arg[r].kind = "text") =>
            LET m == arg[r].text
            IN  IF \A k \in 1..Len(m) : m[k] = " "
                THEN /\ response[r].status = 400
                     /\ response[r].kind = "error"
                     /\ response[r].body = <<"message must not be empty">>
                ELSE /\ response[r].status = 200
                     /\ response[r].kind = "json"
                     /\ response[r].body = <<"message", m>>
C12_Witness ==
    /\ endpoint[1] = "echo" /\ pc[1] = "responded"
    /\ arg[1].text = <<" ", "x", " ">>
    /\ response[1].status = 200
    /\ response[1].body[2] = <<" ", "x", " ">>

\* C13: rendering gives every BadRequest(message) status 400 and every
\* Internal(message) status 500, the body being {"error": message} with the
\* error's own message; no error gets another status.
C13_ErrorRendering ==
    e_out /= NoResponse =>
        /\ e_out.kind = "error"
        /\ e_out.body = e_in.msg
        /\ e_in.kind = "BadRequest" => e_out.status = 400
        /\ e_in.kind = "Internal" => e_out.status = 500
        /\ e_out.status \in {400, 500}
C13_Witness ==
    /\ e_in.kind = "Internal"
    /\ e_in.msg = <<"x", "x">>
    /\ e_out.status = 500
    /\ e_out.body = <<"x", "x">>

\* C14: Snapshot and Increment never block each other: while a Snapshot is
\* part-way through its five loads, every request waiting to increment a
\* counter can take its step, and a Snapshot that has begun can always take
\* its next step (a load, or the return after the fifth load), whatever
\* increments are pending.
C14_NeverBlock ==
    \A r \in Req :
        (endpoint[r] = "metrics" /\ pc[r] = "handler") =>
            /\ ENABLED (MetricsRead(r) \/ MetricsReturn(r))
            /\ \A q \in Req :
                   (pc[q] = "handler" /\ endpoint[q] \in Counted) =>
                       ENABLED Count(q)
C14_Witness ==
    /\ endpoint[1] = "metrics" /\ pc[1] = "handler"
    /\ snap[1] = <<0, 0, 0>>
    /\ endpoint[2] = "root" /\ pc[2] = "body" /\ hits["root"] = 1
    /\ endpoint[3] = "sum" /\ pc[3] = "handler"

\* C17: each count a Snapshot has read lies between the counter's value when
\* that Snapshot began and the counter's value now, up to and including the
\* moment the Snapshot returns; the counts of one Snapshot may come from
\* different moments.
C17_SnapshotWithinWindow ==
    \A r \in Req :
        (endpoint[r] = "metrics" /\ pc[r] = "handler") =>
            \A k \in 1..Len(snap[r]) :
                /\ snap_start[r][Endpoints[k]] <= snap[r][k]
                /\ snap[r][k] <= hits[Endpoints[k]]
C17_Witness ==
    /\ endpoint[2] = "metrics" /\ pc[2] = "handler"
    /\ snap_start[2]["root"] = 1
    /\ snap[2] = <<1, 1, 0, 0, 0>>
    /\ snap_start[2]["health"] = 0
    /\ hits["root"] = 1 /\ hits["health"] = 1

\* C18: frame of the counters: a step that changes a counter is the step of
\* one request to a counted endpoint, it changes that endpoint's counter
\* only, and no step of a request to /metrics changes any counter.
C18_CounterFrame ==
    [][/\ \A e \in Counted :
              hits'[e] /= hits[e] =>
                  /\ \E r \in Req : endpoint[r] = e /\ pc'[r] /= pc[r]
                  /\ \A f \in Counted \ {e} : hits'[f] = hits[f]
       /\ \A r \in Req :
              (endpoint'[r] = "metrics"
                   /\ (pc'[r] /= pc[r] \/ snap'[r] /= snap[r])) =>
                  hits' = hits]_vars
C18_Witness ==
    /\ endpoint[1] = "metrics" /\ pc[1] = "responded"
    /\ endpoint[2] = "sum" /\ pc[2] = "responded"
    /\ hits = [e \in Counted |-> IF e = "sum" THEN 1 ELSE 0]
    /\ response[1].body = <<0, 0, 0, 0, 0>>

\* C15: with Compute calls running at once, what a call has collected and
\* what it returns are results of its own subtasks only: every result is
\* the triple (index, index * index, 50 + index * 30) of an index below
\* the call's own count, and a call that returns has one result for each of
\* its indexes.
C15_NoCrossTalk ==
    \A r \in Req :
        LET own == {[index |-> i, value |-> i * i, ms |-> 50 + i * 30] :
                        i \in 0..(arg[r].num - 1)}
        IN  (IsCompute(r) /\ arg[r].kind = "num") =>
                /\ \A k \in 1..Len(results[r]) : results[r][k] \in own
                /\ Returned(r) =>
                       /\ Len(response[r].body) = arg[r].num
                       /\ {response[r].body[k] : k \in 1..arg[r].num} = own
C15_Witness ==
    /\ Returned(1) /\ arg[1].num = 1
    /\ response[1].body = <<[index |-> 0, value |-> 0, ms |-> 50]>>
    /\ pc[2] = "parallel" /\ arg[2].num = 2
    /\ results[2] = <<[index |-> 1, value |-> 1, ms |-> 80]>>
    /\ finished[2] = <<[index |-> 1, ok |-> TRUE], [index |-> 0, ok |-> TRUE]>>
    /\ Len(finished[1]) = 1

\* C19: on a runtime that schedules every task and lets every sleep elapse,
\* a Compute call that has entered its handler eventually returns to its
\* caller, and by then none of its subtasks is running or waiting to be
\* joined.
C19_ComputeTerminates ==
    (IsCompute(1) /\ pc[1] = "handler")
        ~> (pc[1] = "responded" /\ running[1] = {} /\ notified[1] = <<>>)
C19_Witness ==
    /\ Returned(1)
    /\ arg[1].num = 3
    /\ running[1] = {} /\ notified[1] = <<>>
    /\ finished[1] = <<[index |-> 0, ok |-> TRUE], [index |-> 2, ok |-> TRUE],
                       [index |-> 1, ok |-> TRUE]>>
    /\ Len(response[1].body) = 3

====
